---- MODULE Spec2Model ----
(***************************************************************************)
(* Request orchestration of the VISION conversational client (src/app.jsx):*)
(* sendMessage, handleSummarizeChat, handleClearChat and the retry loops   *)
(* they run (Spec, SpecGated, SpecDiscard, SpecSettling), the speech       *)
(* requests of fetchAndPlayGeminiTTS (SpecTTS), pcmToWav (SpecWav) and     *)
(* getFilteredChatHistory (SpecFilter).  Every text is a sequence of       *)
(* one-character strings so that trim, toLowerCase, startsWith, substring, *)
(* includes and match are computed, not assumed.                           *)
(***************************************************************************)
EXTENDS Integers, Sequences, FiniteSets, TLC

\* ------------------------------------------------------------------------
\* Bounds of the model
\* ------------------------------------------------------------------------
\* number of sendMessage / handleSummarizeChat invocations in one behaviour
MaxOps == 1
\* number of handleClearChat invocations in one behaviour
MaxClears == 1

\* the same, in a session whose collaborator gates on the busy flag
MaxGatedOps == 2

\* ------------------------------------------------------------------------
\* String literals of src/app.jsx
\* ------------------------------------------------------------------------
imagePromptPrefix ==
    <<"g","e","n","e","r","a","t","e"," ","a","n"," ","i","m","a","g","e"," ","o","f">>

DefaultImagePrompt ==
    <<"W","h","a","t"," ","i","s"," ","i","n"," ","t","h","i","s"," ","i","m","a","g","e","?">>

AnalyzingText ==
    <<"A","n","a","l","y","z","i","n","g"," ","t","h","e"," ","i","m","a","g","e"," ","p","r","o","v","i","d","e","d",".",".",".">>

GeneratingHead ==
    <<"G","e","n","e","r","a","t","i","n","g"," ","a","n"," ","i","m","a","g","e"," ","o","f",":"," ","\"">>

GeneratingTail ==
    <<"\"",".",".",".">>

ImageGeneratedText ==
    <<"I","m","a","g","e"," ","g","e","n","e","r","a","t","e","d"," ","s","u","c","c","e","s","s","f","u","l","l","y",".">>

SummaryHead ==
    <<"H","e","r","e"," ","i","s"," ","a"," ","s","u","m","m","a","r","y"," ","o","f"," ","o","u","r"," ","c","o","n","v","e","r","s","a","t","i","o","n",":","\n","\n">>

SummarySpokenText ==
    <<"H","e","r","e"," ","i","s"," ","a"," ","s","u","m","m","a","r","y"," ","o","f"," ","o","u","r"," ","c","o","n","v","e","r","s","a","t","i","o","n",".">>

ClearedSpokenText ==
    <<"C","h","a","t"," ","h","i","s","t","o","r","y"," ","c","l","e","a","r","e","d","."," ","H","o","w"," ","m","a","y"," ","I"," ","b","e"," ","o","f"," ","a","s","s","i","s","t","a","n","c","e","?">>

AnalysisMalformedText ==
    <<"S","o","r","r","y",","," ","I"," ","c","o","u","l","d","n","'","t"," ","a","n","a","l","y","z","e"," ","t","h","e"," ","i","m","a","g","e","."," ","T","h","e"," ","A","P","I"," ","r","e","t","u","r","n","e","d"," ","a","n"," ","u","n","e","x","p","e","c","t","e","d"," ","f","o","r","m","a","t",".">>

AnalysisExhaustedText ==
    <<"I"," ","a","m"," ","u","n","a","b","l","e"," ","t","o"," ","a","n","a","l","y","z","e"," ","t","h","e"," ","i","m","a","g","e"," ","a","t"," ","t","h","i","s"," ","t","i","m","e","."," ","P","l","e","a","s","e"," ","t","r","y"," ","a","g","a","i","n"," ","l","a","t","e","r",".">>

GenerationMalformedText ==
    <<"I","'","m"," ","s","o","r","r","y",","," ","I"," ","e","n","c","o","u","n","t","e","r","e","d"," ","a","n"," ","i","s","s","u","e"," ","g","e","n","e","r","a","t","i","n","g"," ","t","h","e"," ","i","m","a","g","e",".">>

GenerationExhaustedText ==
    <<"I"," ","a","m"," ","u","n","a","b","l","e"," ","t","o"," ","g","e","n","e","r","a","t","e"," ","t","h","e"," ","i","m","a","g","e"," ","a","t"," ","t","h","i","s"," ","t","i","m","e","."," ","P","l","e","a","s","e"," ","t","r","y"," ","a","g","a","i","n"," ","l","a","t","e","r",".">>

ConversationMalformedText ==
    <<"S","o","r","r","y",","," ","I"," ","c","o","u","l","d","n","'","t"," ","g","e","n","e","r","a","t","e"," ","a"," ","r","e","s","p","o","n","s","e","."," ","T","h","e"," ","A","P","I"," ","r","e","t","u","r","n","e","d"," ","a","n"," ","u","n","e","x","p","e","c","t","e","d"," ","f","o","r","m","a","t",".">>

ConversationExhaustedText ==
    <<"I","'","m"," ","s","o","r","r","y",","," ","I"," ","a","m"," ","c","u","r","r","e","n","t","l","y"," ","u","n","a","b","l","e"," ","t","o"," ","p","r","o","c","e","s","s"," ","y","o","u","r"," ","r","e","q","u","e","s","t","."," ","P","l","e","a","s","e"," ","t","r","y"," ","a","g","a","i","n"," ","l","a","t","e","r",".">>

SummaryMalformedText ==
    <<"S","o","r","r","y",","," ","I"," ","c","o","u","l","d","n","'","t"," ","s","u","m","m","a","r","i","z","e"," ","t","h","e"," ","c","o","n","v","e","r","s","a","t","i","o","n",".">>

SummaryExhaustedText ==
    <<"I","'","m"," ","s","o","r","r","y",","," ","I"," ","a","m"," ","c","u","r","r","e","n","t","l","y"," ","u","n","a","b","l","e"," ","t","o"," ","s","u","m","m","a","r","i","z","e"," ","t","h","e"," ","c","o","n","v","e","r","s","a","t","i","o","n","."," ","P","l","e","a","s","e"," ","t","r","y"," ","a","g","a","i","n"," ","l","a","t","e","r",".">>

MsgBlank ==
    <<" "," ">>

MsgHi ==
    <<"H","i">>

MsgFox ==
    <<"g","e","n","e","r","a","t","e"," ","a","n"," ","i","m","a","g","e"," ","o","f"," ","a"," ","r","e","d"," ","f","o","x">>

MsgCat ==
    <<"G","e","n","e","r","a","t","e"," ","A","n"," ","I","M","A","G","E"," ","o","f"," "," ","C","a","t"," ">>

MsgLead ==
    <<" ","g","e","n","e","r","a","t","e"," ","a","n"," ","i","m","a","g","e"," ","o","f"," ","x">>


\* ------------------------------------------------------------------------
\* Inputs
\* ------------------------------------------------------------------------
\* texts typed into the text input
TypedTexts == {<<>>, MsgBlank, MsgCat}

\* transcripts delivered by speech recognition
Transcripts == {MsgBlank, MsgHi}

Messages == TypedTexts \cup Transcripts

NoFile == [type |-> "", bytes |-> ""]

\* files offered to the file input; bytes stand for the base64 of the content
Files == {[type |-> "image/jpeg", bytes |-> "QUJD"]}

\* reader.readAsDataURL(file): "data:<type>;base64,<bytes>" kept as the two
\* parts that split(',') separates
readAsDataURL(file) == <<file.type, file.bytes>>

\* useState(null) of uploadedImage
NoImage == [file |-> NoFile, dataUrl |-> <<>>]

\* result?.candidates?.[0]?.content?.parts?.[0]?.text of a good reply
ReplyText == <<"O", "k">>

\* what one fetch can settle to: the call throws, or answers with a status
\* (ok or not) and a body that response.json() parses or rejects; a parsed
\* body lacks the expected field, holds it empty, or holds a value
Responses ==
    {[threw |-> TRUE, ok |-> FALSE, json |-> FALSE, present |-> FALSE, value |-> <<>>]}
    \cup {[threw |-> FALSE, ok |-> k, json |-> FALSE, present |-> FALSE, value |-> <<>>] :
             k \in BOOLEAN}
    \cup {[threw |-> FALSE, ok |-> k, json |-> TRUE, present |-> FALSE, value |-> <<>>] :
             k \in BOOLEAN}
    \cup {[threw |-> FALSE, ok |-> k, json |-> TRUE, present |-> TRUE, value |-> v] :
             k \in BOOLEAN, v \in {<<>>, ReplyText}}

\* ------------------------------------------------------------------------
\* String functions
\* ------------------------------------------------------------------------
UpperCase == <<"A","B","C","D","E","F","G","H","I","J","K","L","M",
               "N","O","P","Q","R","S","T","U","V","W","X","Y","Z">>

LowerCase == <<"a","b","c","d","e","f","g","h","i","j","k","l","m",
               "n","o","p","q","r","s","t","u","v","w","x","y","z">>

\* the lower-case letter of each upper-case letter
LowerOf ==
    [c \in {UpperCase[i] : i \in 1..Len(UpperCase)} |->
        LowerCase[CHOOSE i \in 1..Len(UpperCase) : UpperCase[i] = c]]

toLowerChar(c) == IF c \in DOMAIN LowerOf THEN LowerOf[c] ELSE c

\* String.prototype.toLowerCase
toLowerCase(s) == [i \in 1..Len(s) |-> toLowerChar(s[i])]

IsWhiteSpace(c) == c \in {" ", "\t", "\n", "\r"}

\* String.prototype.trim
trim(s) ==
    LET keep == {i \in 1..Len(s) : ~IsWhiteSpace(s[i])}
        first == CHOOSE i \in keep : \A j \in keep : i <= j
        last == CHOOSE i \in keep : \A j \in keep : j <= i
    IN  IF keep = {} THEN <<>> ELSE SubSeq(s, first, last)

\* String.prototype.startsWith
startsWith(s, p) == Len(s) >= Len(p) /\ SubSeq(s, 1, Len(p)) = p

\* String.prototype.substring(n)
substring(s, n) == SubSeq(s, n + 1, Len(s))

\* ------------------------------------------------------------------------
\* Program constants
\* ------------------------------------------------------------------------
\* a loop that allows one attempt too many
maxRetries_extra == 3 + 1

maxRetries == 3

baseDelay == 1000

RECURSIVE pow(_, _)
\* Math.pow on naturals
pow(b, e) == IF e = 0 THEN 1 ELSE b * pow(b, e - 1)

\* the exponent taken before retryCount++ instead of after it
delay_early(retryCount) == baseDelay * pow(2, retryCount - 1)

\* const delay = baseDelay * Math.pow(2, retryCount)
delay(retryCount) == baseDelay * pow(2, retryCount)

\* the stand-in for the fixed persona preamble that ends with "User: "
PersonaPreamble == <<"[VISION persona] User: ">>

\* ------------------------------------------------------------------------
\* sendMessage: guard, routing, request construction
\* ------------------------------------------------------------------------
\* the guard without trim()
IsNoop_untrimmed(message, image) == message = <<>> /\ image = NoImage

\* if (!message.trim() && !uploadedImage) return;
IsNoop(message, image) == trim(message) = <<>> /\ image = NoImage

\* the trigger phrase tested before the attachment
Route_triggerFirst(message, image) ==
    IF startsWith(toLowerCase(message), imagePromptPrefix) THEN "generation"
    ELSE IF image # NoImage THEN "analysis"
    ELSE "conversation"

\* if (uploadedImage) ... else if (message.toLowerCase().startsWith(prefix)) ... else
Route(message, image) ==
    IF image # NoImage THEN "analysis"
    ELSE IF startsWith(toLowerCase(message), imagePromptPrefix) THEN "generation"
    ELSE "conversation"

\* the remainder of the text without trim()
imagePrompt_untrimmed(message) == substring(message, Len(imagePromptPrefix))

\* const imagePrompt = message.substring(imagePromptPrefix.length).trim();
imagePrompt(message) == trim(substring(message, Len(imagePromptPrefix)))

\* const userPrompt = message.trim() || "What is in this image?";
userPrompt(message) ==
    IF trim(message) # <<>> THEN trim(message) ELSE DefaultImagePrompt

\* fileToBase64: reader.result.split(',')[1]
fileToBase64(file) == readAsDataURL(file)[2]

NoPayload == [prompt |-> <<>>, mimeType |-> "", data |-> ""]

AnalysisPayload(message, image) ==
    [prompt |-> userPrompt(message), mimeType |-> image.file.type,
     data |-> fileToBase64(image.file)]

GenerationPayload(message) ==
    [prompt |-> imagePrompt(message), mimeType |-> "", data |-> ""]

ConversationPayload(message) ==
    [prompt |-> PersonaPreamble \o message, mimeType |-> "", data |-> ""]

\* ------------------------------------------------------------------------
\* Turns
\* ------------------------------------------------------------------------
UserTurn(message, image) == [role |-> "user", text |-> message, imageUrl |-> image.dataUrl]

VisionTurn(text) == [role |-> "vision", text |-> text, imageUrl |-> <<>>]

\* an update that writes over the last Turn instead of adding after it
appendTurns_overLast(prevHistory, turns) ==
    IF prevHistory = <<>> THEN turns
    ELSE SubSeq(prevHistory, 1, Len(prevHistory) - 1) \o turns

\* setChatHistory(prevHistory => [...prevHistory, turn]), once per turn
appendTurns(prevHistory, turns) == prevHistory \o turns

\* the image-analysis branch without its provisional Turn
Placeholder_noAnalysis(kind, message) ==
    IF kind = "generation"
    THEN <<VisionTurn(GeneratingHead \o imagePrompt(message) \o GeneratingTail)>>
    ELSE <<>>

\* the provisional Turn each branch of sendMessage appends before its loop
Placeholder(kind, message) ==
    IF kind = "analysis" THEN <<VisionTurn(AnalyzingText)>>
    ELSE IF kind = "generation"
         THEN <<VisionTurn(GeneratingHead \o imagePrompt(message) \o GeneratingTail)>>
    ELSE <<>>

\* does the path treat this settled fetch as a thrown error (catch block)?
\* only the conversation and summarization loops test response.ok
Failed(kind, r) ==
    \/ r.threw
    \/ kind \in {"conversation", "summarization"} /\ ~r.ok
    \/ ~r.json

\* if (text) / if (result.predictions && ... bytesBase64Encoded)
Accepted(r) == r.present /\ r.value # <<>>

\* the Turn appended for a well-formed reply
ReplyTurn(kind, r) ==
    IF kind = "generation"
    THEN [role |-> "vision", text |-> ImageGeneratedText, imageUrl |-> <<"image/png", r.value>>]
    ELSE IF kind = "summarization" THEN VisionTurn(SummaryHead \o r.value)
    ELSE VisionTurn(r.value)

\* every path speaking the fixed summary sentence
ReplySpeech_fixed(kind, r) == SummarySpokenText

\* the text handed to fetchAndPlayGeminiTTS after a well-formed reply
ReplySpeech(kind, r) ==
    IF kind = "generation" THEN ImageGeneratedText
    ELSE IF kind = "summarization" THEN SummarySpokenText
    ELSE r.value

\* the else branch using the text of the catch block
MalformedText_asExhausted(kind) ==
    CASE kind = "analysis" -> AnalysisExhaustedText
      [] kind = "generation" -> GenerationExhaustedText
      [] kind = "conversation" -> ConversationExhaustedText
      [] kind = "summarization" -> SummaryExhaustedText

\* errorMessage of the else branch (expected field absent or empty)
MalformedText(kind) ==
    CASE kind = "analysis" -> AnalysisMalformedText
      [] kind = "generation" -> GenerationMalformedText
      [] kind = "conversation" -> ConversationMalformedText
      [] kind = "summarization" -> SummaryMalformedText

\* every catch block using the text of the conversation path
ExhaustedText_conversation(kind) == ConversationExhaustedText

\* errorMessage of the catch block once retryCount reaches maxRetries
ExhaustedText(kind) ==
    CASE kind = "analysis" -> AnalysisExhaustedText
      [] kind = "generation" -> GenerationExhaustedText
      [] kind = "conversation" -> ConversationExhaustedText
      [] kind = "summarization" -> SummaryExhaustedText

\* the Turn appended by the try block once a response has been parsed
AnswerTurn(kind, r) ==
    IF Accepted(r) THEN ReplyTurn(kind, r) ELSE VisionTurn(MalformedText(kind))

\* the text the try block hands to fetchAndPlayGeminiTTS
AnswerSpeech(kind, r) ==
    IF Accepted(r) THEN ReplySpeech(kind, r) ELSE MalformedText(kind)

\* the Turn appended by the catch block after the last attempt
ExhaustedTurn(kind) == VisionTurn(ExhaustedText(kind))

\* ------------------------------------------------------------------------
\* State
\* ------------------------------------------------------------------------
VARIABLES
    chatHistory,    \* useState([]): the conversation, a sequence of Turns
    inputValue,     \* useState(''): the text input
    isLoading,      \* useState(false): the busy flag
    uploadedImage,  \* useState(null): the attached, unsent image
    proc,           \* per invocation: position and locals of the async function
    obs,            \* per invocation: what it has done so far (history)
    speech,         \* per caller, the texts it has passed to fetchAndPlayGeminiTTS
    audio,          \* per settled speech request: what became of its playback
    audioContextState, \* audioContextRef.current.state as far as the code sets it
    searchQuery,    \* useState(''): the text of the search box
    pcmData,        \* pcmToWav: the Int16Array argument
    sampleRate,     \* pcmToWav: the rate argument
    wavBlob         \* pcmToWav: the bytes of the Blob returned

vars == <<chatHistory, inputValue, isLoading, uploadedImage, proc, obs, speech,
          audio, audioContextState, searchQuery, pcmData, sampleRate, wavBlob>>

\* the state of the speech playback
ttsVars == <<audio, audioContextState>>

\* the arguments and the result of pcmToWav
wavVars == <<pcmData, sampleRate, wavBlob>>

\* the invocations of sendMessage / handleSummarizeChat, numbered from 1
Ops == DOMAIN proc

\* who calls fetchAndPlayGeminiTTS: an invocation, or handleClearChat (0)
Callers == DOMAIN speech

\* locals of an invocation that has not started or has returned
IdleProc == [pc |-> "idle", kind |-> "none", retryCount |-> 0,
             message |-> <<>>, image |-> NoImage, payload |-> NoPayload]

\* kind: the path taken; attempts: fetches started; waits: backoff delays
\* begun; outcome: how the loop ended; placeholder: a provisional Turn was
\* appended; finals: the reply or fallback Turns appended; released: the
\* number of times its finally block ran setIsLoading(false); discarded:
\* the conversation was emptied while it waited in a backoff delay (kept
\* only where handleClearChatWhileWaiting is the clear)
NoObs == [kind |-> "none", attempts |-> 0, waits |-> <<>>, outcome |-> "none",
          placeholder |-> FALSE, finals |-> <<>>, released |-> 0,
          discarded |-> FALSE]

\* The conversation a behaviour starts from: the empty one of useState([]),
\* or the one left by an earlier sendMessage("Hi") that was answered "Ok".
InitialHistories == {<<>>, <<UserTurn(MsgHi, NoImage), VisionTurn(ReplyText)>>}

Init ==
    /\ chatHistory \in InitialHistories
    /\ inputValue = <<>>
    /\ isLoading = FALSE
    /\ uploadedImage = NoImage
    /\ proc = [o \in 1..MaxOps |-> IdleProc]
    /\ obs = [o \in 1..MaxOps |-> NoObs]
    /\ speech = [c \in 0..MaxOps |-> <<>>]
    /\ audio = [q \in {} |-> "none"]
    /\ audioContextState = (IF chatHistory = <<>> THEN "initial" ELSE "suspended")
    /\ searchQuery = <<>>
    /\ pcmData = <<>>
    /\ sampleRate = 0
    /\ wavBlob = <<>>

\* invocations are numbered in the order they are made
Fresh(o) ==
    /\ proc[o].pc = "idle"
    /\ obs[o] = NoObs
    /\ \A p \in Ops : p < o => obs[p] # NoObs

Pending(o) == proc[o].pc \in {"reading", "fetching", "backoff"}

Returned(o) == proc[o].pc \in {"done", "aborted"}

\* fetchAndPlayGeminiTTS(text) called by invocation o (0: handleClearChat)
Speak(o, text) == [speech EXCEPT ![o] = Append(@, text)]

\* ------------------------------------------------------------------------
\* UI events that only set state
\* ------------------------------------------------------------------------
\* onChange={(e) => setInputValue(e.target.value)} of the text input, which
\* is disabled={isLoading}
onChangeInput(m) ==
    /\ ~isLoading
    /\ inputValue' = m
    /\ UNCHANGED <<chatHistory, isLoading, uploadedImage, proc, obs, speech>>
    /\ UNCHANGED <<ttsVars, searchQuery, wavVars>>

\* handleImageUpload: reader.onloadend sets the attachment; the file input
\* and its button are disabled={isLoading}
handleImageUpload(file) ==
    /\ ~isLoading
    /\ uploadedImage' = [file |-> file, dataUrl |-> readAsDataURL(file)]
    /\ UNCHANGED <<chatHistory, inputValue, isLoading, proc, obs, speech>>
    /\ UNCHANGED <<ttsVars, searchQuery, wavVars>>

\* the X button next to the preview: setUploadedImage(null)
removeImage ==
    /\ uploadedImage # NoImage
    /\ uploadedImage' = NoImage
    /\ UNCHANGED <<chatHistory, inputValue, isLoading, proc, obs, speech>>
    /\ UNCHANGED <<ttsVars, searchQuery, wavVars>>

\* a clear that leaves the attached image in place
handleClearChat_keepImage ==
    /\ Len(speech[0]) < MaxClears
    /\ chatHistory' = <<>>
    /\ speech' = Speak(0, ClearedSpokenText)
    /\ UNCHANGED <<inputValue, isLoading, uploadedImage, proc, obs>>
    /\ UNCHANGED <<ttsVars, searchQuery, wavVars>>

\* handleClearChat
handleClearChat ==
    /\ Len(speech[0]) < MaxClears
    /\ chatHistory' = <<>>
    /\ uploadedImage' = NoImage
    /\ speech' = Speak(0, ClearedSpokenText)
    /\ UNCHANGED <<inputValue, isLoading, proc, obs>>
    /\ UNCHANGED <<ttsVars, searchQuery, wavVars>>

\* ------------------------------------------------------------------------
\* sendMessage, from its entry to its first await
\* ------------------------------------------------------------------------
\* message: the argument; image: the uploadedImage its closure sees;
\* entryInput: inputValue when it is entered.  Past the guard it first
\* calls audioContextRef.current.suspend().  o numbers the invocation.
sendMessage(message, image, entryInput) ==
    IF IsNoop(message, image)
    THEN /\ inputValue' = entryInput
         /\ UNCHANGED <<proc, obs, isLoading, uploadedImage, speech, chatHistory>>
         /\ UNCHANGED <<ttsVars, searchQuery, wavVars>>
    ELSE \E o \in Ops :
         LET kind == Route(message, image)
             placeholder == Placeholder(kind, message)
         IN  /\ Fresh(o)
             /\ chatHistory' = appendTurns(chatHistory, <<UserTurn(message, image)>> \o placeholder)
             /\ inputValue' = <<>>
             /\ isLoading' = TRUE
             /\ proc' = [proc EXCEPT ![o] =
                    [pc |-> IF kind = "analysis" THEN "reading" ELSE "fetching",
                     kind |-> kind,
                     retryCount |-> 0,
                     message |-> message,
                     image |-> image,
                     payload |-> CASE kind = "analysis" -> NoPayload
                                   [] kind = "generation" -> GenerationPayload(message)
                                   [] kind = "conversation" -> ConversationPayload(message)]]
             /\ obs' = [obs EXCEPT ![o].kind = kind,
                                   ![o].placeholder = (placeholder # <<>>),
                                   ![o].attempts = IF kind = "analysis" THEN 0 ELSE 1]
             /\ audioContextState' = "suspended"
             /\ UNCHANGED <<uploadedImage, speech, audio, searchQuery, wavVars>>

\* handleFormSubmit: sendMessage(inputValue) of the current render
handleFormSubmit == sendMessage(inputValue, uploadedImage, inputValue)

\* recognitionRef.current.onresult: setInputValue(transcript); sendMessage(transcript).
\* The handler is installed once by an effect with no dependencies, so the
\* sendMessage it calls is the first render's, whose uploadedImage is null.
onresult(transcript) == sendMessage(transcript, NoImage, transcript)

\* ------------------------------------------------------------------------
\* image-analysis branch: await fileToBase64(uploadedImage.file)
\* ------------------------------------------------------------------------
\* the read succeeds without setUploadedImage(null)
fileToBase64Resolved_keepImage(o) ==
    /\ proc[o].pc = "reading"
    /\ proc' = [proc EXCEPT ![o].pc = "fetching",
                            ![o].payload = AnalysisPayload(proc[o].message, proc[o].image)]
    /\ obs' = [obs EXCEPT ![o].attempts = 1]
    /\ UNCHANGED <<chatHistory, inputValue, isLoading, uploadedImage, speech>>
    /\ UNCHANGED <<ttsVars, searchQuery, wavVars>>

\* the read succeeds: setUploadedImage(null), build the request, first fetch
fileToBase64Resolved(o) ==
    /\ proc[o].pc = "reading"
    /\ uploadedImage' = NoImage
    /\ proc' = [proc EXCEPT ![o].pc = "fetching",
                            ![o].payload = AnalysisPayload(proc[o].message, proc[o].image)]
    /\ obs' = [obs EXCEPT ![o].attempts = 1]
    /\ UNCHANGED <<chatHistory, inputValue, isLoading, speech>>
    /\ UNCHANGED <<ttsVars, searchQuery, wavVars>>

\* reader.onerror: the await throws outside every try; sendMessage rejects
fileToBase64Rejected(o) ==
    /\ proc[o].pc = "reading"
    /\ proc' = [proc EXCEPT ![o] = [IdleProc EXCEPT !.pc = "aborted"]]
    /\ UNCHANGED <<chatHistory, inputValue, isLoading, uploadedImage, obs, speech>>
    /\ UNCHANGED <<ttsVars, searchQuery, wavVars>>

\* ------------------------------------------------------------------------
\* handleSummarizeChat, from its entry to its first await
\* ------------------------------------------------------------------------
\* a summarization without the guard on the empty conversation
handleSummarizeChat_noGuard ==
    \E o \in Ops :
        /\ Fresh(o)
        /\ isLoading' = TRUE
        /\ proc' = [proc EXCEPT ![o] =
               [IdleProc EXCEPT !.pc = "fetching", !.kind = "summarization"]]
        /\ obs' = [obs EXCEPT ![o].kind = "summarization", ![o].attempts = 1]
        /\ UNCHANGED <<chatHistory, inputValue, uploadedImage, speech>>
        /\ UNCHANGED <<ttsVars, searchQuery, wavVars>>

\* if (chatHistory.length === 0) return; else the first fetch
handleSummarizeChat ==
    IF Len(chatHistory) = 0
    THEN UNCHANGED vars
    ELSE \E o \in Ops :
         /\ Fresh(o)
         /\ isLoading' = TRUE
         /\ proc' = [proc EXCEPT ![o] =
                [IdleProc EXCEPT !.pc = "fetching", !.kind = "summarization"]]
         /\ obs' = [obs EXCEPT ![o].kind = "summarization", ![o].attempts = 1]
         /\ UNCHANGED <<chatHistory, inputValue, uploadedImage, speech>>
         /\ UNCHANGED <<ttsVars, searchQuery, wavVars>>

\* ------------------------------------------------------------------------
\* The retry loop (one per path, the same shape in all four)
\* ------------------------------------------------------------------------
\* the awaited fetch / response.json() of the current attempt settles with r
fetchSettled(o, r) ==
    LET kind == proc[o].kind
        count == proc[o].retryCount + 1
    IN
    /\ proc[o].pc = "fetching"
    /\ IF Failed(kind, r)
       THEN \* catch: retryCount++
            IF count < maxRetries
            THEN \* await new Promise(res => setTimeout(res, delay))
                 /\ proc' = [proc EXCEPT ![o].pc = "backoff", ![o].retryCount = count]
                 /\ obs' = [obs EXCEPT ![o].waits = Append(@, delay(count))]
                 /\ UNCHANGED <<chatHistory, isLoading, speech>>
            ELSE \* fallback Turn, speech; finally; the loop condition fails
                 /\ chatHistory' = appendTurns(chatHistory, <<ExhaustedTurn(kind)>>)
                 /\ speech' = Speak(o, ExhaustedText(kind))
                 /\ isLoading' = FALSE
                 /\ proc' = [proc EXCEPT ![o] = [IdleProc EXCEPT !.pc = "done"]]
                 /\ obs' = [obs EXCEPT ![o].outcome = "exhausted",
                                       ![o].finals = Append(@, ExhaustedTurn(kind)),
                                       ![o].released = @ + 1]
       ELSE \* reply or unexpected-format Turn, speech; break; finally
            /\ chatHistory' = appendTurns(chatHistory, <<AnswerTurn(kind, r)>>)
            /\ speech' = Speak(o, AnswerSpeech(kind, r))
            /\ isLoading' = FALSE
            /\ proc' = [proc EXCEPT ![o] = [IdleProc EXCEPT !.pc = "done"]]
            /\ obs' = [obs EXCEPT ![o].outcome = IF Accepted(r) THEN "reply" ELSE "malformed",
                                  ![o].finals = Append(@, AnswerTurn(kind, r)),
                                  ![o].released = @ + 1]
    /\ UNCHANGED <<inputValue, uploadedImage, ttsVars, searchQuery, wavVars>>

\* the backoff timer fires: finally runs, then the next iteration's fetch
backoffElapsed(o) ==
    /\ proc[o].pc = "backoff"
    /\ isLoading' = FALSE
    /\ proc' = [proc EXCEPT ![o].pc = "fetching"]
    /\ obs' = [obs EXCEPT ![o].attempts = @ + 1, ![o].released = @ + 1]
    /\ UNCHANGED <<chatHistory, inputValue, uploadedImage, speech>>
    /\ UNCHANGED <<ttsVars, searchQuery, wavVars>>

\* ------------------------------------------------------------------------
\* Specification
\* ------------------------------------------------------------------------
Next ==
    \/ \E m \in TypedTexts : onChangeInput(m)
    \/ \E f \in Files : handleImageUpload(f)
    \/ removeImage
    \/ handleClearChat
    \/ handleFormSubmit
    \/ \E t \in Transcripts : onresult(t)
    \/ handleSummarizeChat
    \/ \E o \in Ops : fileToBase64Resolved(o)
    \/ \E o \in Ops : fileToBase64Rejected(o)
    \/ \E o \in Ops, r \in Responses : fetchSettled(o, r)
    \/ \E o \in Ops : backoffElapsed(o)

Spec == Init /\ [][Next]_vars

\* ------------------------------------------------------------------------
\* fetchAndPlayGeminiTTS
\* ------------------------------------------------------------------------
AudioPrefix ==
    <<"a","u","d","i","o","/">>

RateKey ==
    <<"r","a","t","e","=">>

MimeL16Rate ==
    <<"a","u","d","i","o","/","L","1","6",";","c","o","d","e","c","=","p","c","m",";","r","a","t","e","=","2","4","0","0","0">>

MimeL16 ==
    <<"a","u","d","i","o","/","L","1","6",";","c","o","d","e","c","=","p","c","m">>

MimeTextRate ==
    <<"t","e","x","t","/","p","l","a","i","n",";","r","a","t","e","=","2","4","0","0","0">>

\* part?.inlineData?.mimeType of the answers considered; <<>>: undefined
MimeTypes == {<<>>, MimeTextRate, MimeL16, MimeL16Rate}

\* what the one fetch of a speech request can settle to: the call throws,
\* response.json() rejects, or the body parses, with or without the inline
\* audio data and with one of the MIME types (no status is tested)
TtsResponses ==
    {[threw |-> TRUE, json |-> FALSE, audioData |-> "", mimeType |-> <<>>],
     [threw |-> FALSE, json |-> FALSE, audioData |-> "", mimeType |-> <<>>],
     [threw |-> FALSE, json |-> TRUE, audioData |-> "", mimeType |-> MimeL16Rate]}
    \cup {[threw |-> FALSE, json |-> TRUE, audioData |-> "NBL//w==", mimeType |-> m] :
             m \in MimeTypes}

IsDigit(c) == c \in {"0", "1", "2", "3", "4", "5", "6", "7", "8", "9"}

\* mimeType.match(/rate=(\d+)/): the digits captured by the leftmost match,
\* <<>> when match() returns null
rateMatch(mimeType) ==
    LET at == {i \in 1..Len(mimeType) :
                  /\ i + Len(RateKey) <= Len(mimeType)
                  /\ SubSeq(mimeType, i, i + Len(RateKey) - 1) = RateKey
                  /\ IsDigit(mimeType[i + Len(RateKey)])}
        first == CHOOSE i \in at : \A j \in at : i <= j
        from == first + Len(RateKey)
        to == CHOOSE j \in from..Len(mimeType) :
                  /\ \A k \in from..j : IsDigit(mimeType[k])
                  /\ j = Len(mimeType) \/ ~IsDigit(mimeType[j + 1])
    IN  IF at = {} THEN <<>> ELSE SubSeq(mimeType, from, to)

\* a try block in which a missing rate does not throw
Plays_noRate(r) ==
    /\ ~r.threw
    /\ r.json
    /\ r.audioData # ""
    /\ r.mimeType # <<>>
    /\ startsWith(r.mimeType, AudioPrefix)

\* does the try block reach audio.play()?  The if needs the data and an
\* "audio/" MIME type; inside it match(...)[1] throws when match() is null
Plays(r) ==
    /\ ~r.threw
    /\ r.json
    /\ r.audioData # ""
    /\ r.mimeType # <<>>
    /\ startsWith(r.mimeType, AudioPrefix)
    /\ rateMatch(r.mimeType) # <<>>

\* the speech requests made so far: the i-th call of caller c
Requests == UNION {{<<c, i>> : i \in 1..Len(speech[c])} : c \in Callers}

\* the awaited fetch / response.json() of speech request q settles with r:
\* new Audio(audioUrl).play(), or console.error and nothing else
ttsFetchSettled(q, r) ==
    /\ q \in Requests
    /\ q \notin DOMAIN audio
    /\ audio' = [p \in DOMAIN audio \cup {q} |->
                    IF p = q THEN (IF Plays(r) THEN "playing" ELSE "none") ELSE audio[p]]
    /\ UNCHANGED <<chatHistory, inputValue, isLoading, uploadedImage, proc, obs, speech>>
    /\ UNCHANGED <<audioContextState, searchQuery, wavVars>>

\* the Audio element of request q reaches the end of its clip
audioEnded(q) ==
    /\ q \in DOMAIN audio
    /\ audio[q] = "playing"
    /\ audio' = [audio EXCEPT ![q] = "ended"]
    /\ UNCHANGED <<chatHistory, inputValue, isLoading, uploadedImage, proc, obs, speech>>
    /\ UNCHANGED <<audioContextState, searchQuery, wavVars>>

\* a new session, with no Turn yet
InitTTS == Init /\ chatHistory = <<>>

\* a session of spoken messages and clears, with the speech requests
\* followed to their end
NextTTS ==
    \/ handleClearChat
    \/ onresult(MsgHi)
    \/ \E o \in Ops, r \in Responses : fetchSettled(o, r)
    \/ \E o \in Ops : backoffElapsed(o)
    \/ \E q \in Requests, r \in TtsResponses : ttsFetchSettled(q, r)
    \/ \E q \in Requests : audioEnded(q)

SpecTTS == InitTTS /\ [][NextTTS]_vars

\* ------------------------------------------------------------------------
\* pcmToWav
\* ------------------------------------------------------------------------
\* number of samples handed to pcmToWav
MaxSamples == 2

\* elements of an Int16Array
Int16Values == {-32768, -1, 0, 4660, 32767}

\* the Int16Array arguments considered
PcmInputs == UNION {[1..n -> Int16Values] : n \in 0..MaxSamples}

\* the rates considered, in Hz
SampleRates == {8000, 16000, 24000, 44100}

\* String.prototype.charCodeAt of the characters of the chunk identifiers
charCode ==
    [c \in {"R", "I", "F", "W", "A", "V", "E", "f", "m", "t", " ", "d", "a"} |->
        CASE c = "R" -> 82 [] c = "I" -> 73 [] c = "F" -> 70 [] c = "W" -> 87
          [] c = "A" -> 65 [] c = "V" -> 86 [] c = "E" -> 69 [] c = "f" -> 102
          [] c = "m" -> 109 [] c = "t" -> 116 [] c = " " -> 32 [] c = "d" -> 100
          [] c = "a" -> 97]

\* writeString: one setUint8 per character
writeString(string) == [i \in 1..Len(string) |-> charCode[string[i]]]

\* a 32-bit field written most significant byte first
setUint32_bigEndian(value) ==
    <<(value \div 16777216) % 256, (value \div 65536) % 256,
      (value \div 256) % 256, value % 256>>

\* view.setUint32(offset, value, true): the low 32 bits, least significant
\* byte first
setUint32(value) ==
    <<value % 256, (value \div 256) % 256,
      (value \div 65536) % 256, (value \div 16777216) % 256>>

\* view.setUint16(offset, value, true)
setUint16(value) == <<value % 256, (value \div 256) % 256>>

\* pcmView[i] = pcmData[i]: the two's complement of a sample in the byte
\* order of the platform, little-endian on the platforms browsers run on
int16ArrayStore(value) == setUint16(value % 65536)

RECURSIVE copySamples(_)
\* for (let i = 0; i < pcmData.length; i++) pcmView[i] = pcmData[i];
copySamples(samples) ==
    IF samples = <<>> THEN <<>>
    ELSE int16ArrayStore(Head(samples)) \o copySamples(Tail(samples))

\* pcmToWav: the bytes of the ArrayBuffer the Blob is made of
pcmToWav(samples, rate) ==
    LET dataLength == 2 * Len(samples)
    IN  writeString(<<"R", "I", "F", "F">>)
        \o setUint32(36 + dataLength)
        \o writeString(<<"W", "A", "V", "E">>)
        \o writeString(<<"f", "m", "t", " ">>)
        \o setUint32(16)
        \o setUint16(1)
        \o setUint16(1)
        \o setUint32(rate)
        \o setUint32(rate * 2)
        \o setUint16(2)
        \o setUint16(16)
        \o writeString(<<"d", "a", "t", "a">>)
        \o setUint32(dataLength)
        \o copySamples(samples)

\* the arguments of one call of pcmToWav
InitWav ==
    /\ chatHistory = <<>>
    /\ inputValue = <<>>
    /\ isLoading = FALSE
    /\ uploadedImage = NoImage
    /\ proc = [o \in 1..MaxOps |-> IdleProc]
    /\ obs = [o \in 1..MaxOps |-> NoObs]
    /\ speech = [c \in 0..MaxOps |-> <<>>]
    /\ audio = [q \in {} |-> "none"]
    /\ audioContextState = "initial"
    /\ searchQuery = <<>>
    /\ pcmData \in PcmInputs
    /\ sampleRate \in SampleRates
    /\ wavBlob = <<>>

\* const wavBlob = pcmToWav(pcm16, sampleRate);
pcmToWavCall ==
    /\ wavBlob = <<>>
    /\ wavBlob' = pcmToWav(pcmData, sampleRate)
    /\ UNCHANGED <<chatHistory, inputValue, isLoading, uploadedImage, proc, obs, speech>>
    /\ UNCHANGED <<ttsVars, searchQuery, pcmData, sampleRate>>

NextWav == pcmToWavCall

SpecWav == InitWav /\ [][NextWav]_vars

\* ------------------------------------------------------------------------
\* getFilteredChatHistory
\* ------------------------------------------------------------------------
\* number of Turns of the conversation that is searched
MaxTurns == 3

TextHelloThere ==
    <<"H","e","l","l","o"," ","t","h","e","r","e">>

TextGoodbye ==
    <<"g","o","o","d","b","y","e">>

TextSayHello ==
    <<"s","a","y"," ","h","e","l","l","o"," ","a","g","a","i","n">>

QueryHello ==
    <<"h","e","l","l","o">>

QueryGood ==
    <<"G","O","O","D">>

QueryNone ==
    <<"z">>

\* the conversations searched: user Turns with these texts, in any order
FilterHistories ==
    UNION {[1..n -> {UserTurn(t, NoImage) : t \in {TextHelloThere, TextGoodbye, TextSayHello}}] :
              n \in 0..MaxTurns}

\* the texts typed into the search box
Queries == {<<>>, QueryHello, QueryGood, QueryNone}

\* a test that looks for the query at the start of the text only
includes_atStart(s, q) == startsWith(s, q)

\* String.prototype.includes
includes(s, q) ==
    \E i \in 1..(Len(s) - Len(q) + 1) : SubSeq(s, i, i + Len(q) - 1) = q

\* getFilteredChatHistory() of the current render
getFilteredChatHistory ==
    IF searchQuery = <<>> THEN chatHistory
    ELSE LET query == toLowerCase(searchQuery)
             keep(msg) == includes(toLowerCase(msg.text), query)
         IN  SelectSeq(chatHistory, keep)

\* a session whose conversation is searched
InitFilter ==
    /\ chatHistory \in FilterHistories
    /\ inputValue = <<>>
    /\ isLoading = FALSE
    /\ uploadedImage = NoImage
    /\ proc = [o \in 1..MaxOps |-> IdleProc]
    /\ obs = [o \in 1..MaxOps |-> NoObs]
    /\ speech = [c \in 0..MaxOps |-> <<>>]
    /\ audio = [q \in {} |-> "none"]
    /\ audioContextState = "initial"
    /\ searchQuery = <<>>
    /\ pcmData = <<>>
    /\ sampleRate = 0
    /\ wavBlob = <<>>

\* onChange={(e) => setSearchQuery(e.target.value)} of the search box
onChangeSearch(q) ==
    /\ searchQuery' = q
    /\ UNCHANGED <<chatHistory, inputValue, isLoading, uploadedImage, proc, obs, speech>>
    /\ UNCHANGED <<ttsVars, wavVars>>

NextFilter == \E q \in Queries : onChangeSearch(q)

SpecFilter == InitFilter /\ [][NextFilter]_vars

\* ------------------------------------------------------------------------
\* A collaborator that starts operations only while the busy flag is clear
\* ------------------------------------------------------------------------
InitGated ==
    /\ chatHistory \in InitialHistories
    /\ inputValue = <<>>
    /\ isLoading = FALSE
    /\ uploadedImage = NoImage
    /\ proc = [o \in 1..MaxGatedOps |-> IdleProc]
    /\ obs = [o \in 1..MaxGatedOps |-> NoObs]
    /\ speech = [c \in 0..MaxGatedOps |-> <<>>]
    /\ audio = [q \in {} |-> "none"]
    /\ audioContextState = (IF chatHistory = <<>> THEN "initial" ELSE "suspended")
    /\ searchQuery = <<>>
    /\ pcmData = <<>>
    /\ sampleRate = 0
    /\ wavBlob = <<>>

\* the submit button, disabled={isLoading || ...}
submitWhenIdle == ~isLoading /\ handleFormSubmit

\* a transcript delivered while the busy flag is clear
onresultWhenIdle(transcript) == ~isLoading /\ onresult(transcript)

\* the summarize button, disabled={isLoading || chatHistory.length === 0}
summarizeWhenIdle == ~isLoading /\ handleSummarizeChat

NextGated ==
    \/ \E m \in TypedTexts : onChangeInput(m)
    \/ submitWhenIdle
    \/ \E t \in Transcripts : onresultWhenIdle(t)
    \/ summarizeWhenIdle
    \/ \E o \in Ops, r \in Responses : fetchSettled(o, r)
    \/ \E o \in Ops : backoffElapsed(o)

SpecGated == InitGated /\ [][NextGated]_vars

\* ------------------------------------------------------------------------
\* The session with a record of the conversations discarded during a wait
\* ------------------------------------------------------------------------
\* the record of the invocations whose setTimeout is pending when the
\* conversation is emptied; nothing in handleClearChat reaches their timers
DiscardedInBackoff ==
    [o \in Ops |-> IF proc[o].pc = "backoff"
                   THEN [obs[o] EXCEPT !.discarded = TRUE]
                   ELSE obs[o]]

\* handleClearChat, noting which invocations were waiting when it ran
handleClearChatWhileWaiting ==
    /\ Len(speech[0]) < MaxClears
    /\ chatHistory' = <<>>
    /\ uploadedImage' = NoImage
    /\ speech' = Speak(0, ClearedSpokenText)
    /\ obs' = DiscardedInBackoff
    /\ UNCHANGED <<inputValue, isLoading, proc>>
    /\ UNCHANGED <<ttsVars, searchQuery, wavVars>>

NextDiscard ==
    \/ \E m \in TypedTexts : onChangeInput(m)
    \/ \E f \in Files : handleImageUpload(f)
    \/ removeImage
    \/ handleClearChatWhileWaiting
    \/ handleFormSubmit
    \/ \E t \in Transcripts : onresult(t)
    \/ handleSummarizeChat
    \/ \E o \in Ops : fileToBase64Resolved(o)
    \/ \E o \in Ops : fileToBase64Rejected(o)
    \/ \E o \in Ops, r \in Responses : fetchSettled(o, r)
    \/ \E o \in Ops : backoffElapsed(o)

SpecDiscard == Init /\ [][NextDiscard]_vars

\* ------------------------------------------------------------------------
\* The session in which every awaited promise of a dispatch settles: the
\* file read resolves, each fetch settles, each backoff timer fires; the
\* conversation is kept (no clear) so that the place of each Turn is seen
\* ------------------------------------------------------------------------
NextSettling ==
    \/ \E m \in TypedTexts : onChangeInput(m)
    \/ \E f \in Files : handleImageUpload(f)
    \/ removeImage
    \/ handleFormSubmit
    \/ \E t \in Transcripts : onresult(t)
    \/ \E o \in Ops : fileToBase64Resolved(o)
    \/ \E o \in Ops, r \in Responses : fetchSettled(o, r)
    \/ \E o \in Ops : backoffElapsed(o)

\* each await of each invocation is eventually resumed
Settling ==
    \A o \in 1..MaxOps :
        /\ WF_vars(fileToBase64Resolved(o))
        /\ WF_vars(\E r \in Responses : fetchSettled(o, r))
        /\ WF_vars(backoffElapsed(o))

SpecSettling == Init /\ [][NextSettling]_vars /\ Settling

\* ------------------------------------------------------------------------
\* Properties
\* ------------------------------------------------------------------------
\* C1: on every path no invocation starts more than 3 fetches; one whose
\* loop ends because every attempt failed has made exactly 3, has appended
\* exactly one Turn, the path's "unable to" fallback, and has appended no
\* fallback while earlier failed attempts were being retried.
C1_ExhaustedAfterThree ==
    \A o \in Ops :
        /\ obs[o].attempts <= 3
        /\ Len(obs[o].finals) <= 1
        /\ obs[o].outcome = "none" => obs[o].finals = <<>>
        /\ obs[o].outcome = "exhausted" =>
              /\ obs[o].attempts = 3
              /\ obs[o].finals = <<VisionTurn(ExhaustedText(obs[o].kind))>>
        /\ (proc[o].pc = "done" /\ obs[o].attempts = 3
              /\ obs[o].outcome \notin {"reply", "malformed"}) =>
              obs[o].outcome = "exhausted"

C1_Witness ==
    \E o \in Ops :
        /\ proc[o].pc = "done"
        /\ obs[o].outcome = "exhausted"
        /\ obs[o].attempts = 3
        /\ Len(chatHistory) > 0
        /\ chatHistory[Len(chatHistory)] = VisionTurn(ExhaustedText(obs[o].kind))

\* C2: the waits of an invocation are 2000 ms after its 1st failed attempt
\* and 4000 ms after its 2nd; a wait is begun only after a failed attempt
\* that is not the last, so a reply on the 3rd attempt has seen exactly
\* <<2000, 4000>> and the 3rd failure is followed by no wait.
C2_BackoffSchedule ==
    \A o \in Ops :
        /\ Len(obs[o].waits) <= 2
        /\ \A k \in 1..Len(obs[o].waits) : obs[o].waits[k] = 1000 * pow(2, k)
        /\ Len(obs[o].waits) =
              IF proc[o].pc = "backoff" THEN obs[o].attempts
              ELSE IF obs[o].attempts = 0 THEN 0 ELSE obs[o].attempts - 1
        /\ proc[o].pc = "backoff" => proc[o].retryCount = Len(obs[o].waits)
        /\ (obs[o].outcome = "reply" /\ obs[o].attempts = 3) =>
              obs[o].waits = <<2000, 4000>>
        /\ obs[o].outcome = "exhausted" => obs[o].waits = <<2000, 4000>>

C2_Witness ==
    \E o \in Ops :
        /\ obs[o].outcome = "reply"
        /\ obs[o].attempts = 3
        /\ obs[o].waits = <<2000, 4000>>

\* C3: on every path an attempt answered with a non-success status is
\* handled as a failed attempt (retried, or the last failure), never turned
\* into a reply or an "unexpected format" Turn.
C3_NonOkIsFailure ==
    [][\A o \in Ops, r \in Responses :
          (~r.threw /\ ~r.ok /\ fetchSettled(o, r)) =>
              obs'[o].outcome \notin {"reply", "malformed"}]_vars

C5_Examples ==
    /\ Route(MsgFox, NoImage) = "generation"
    /\ imagePrompt(MsgFox) = <<"a", " ", "r", "e", "d", " ", "f", "o", "x">>
    /\ Route(MsgLead, NoImage) = "conversation"

\* C5: without an image, a text that starts with "generate an image of" in
\* any letter case takes the generation path, and the prompt sent is the
\* rest of the text with the white space at both ends removed.
C5_GenerationPrompt ==
    /\ C5_Examples
    /\ \A o \in Ops :
          (Pending(o) /\ obs[o].kind # "summarization" /\ proc[o].image = NoImage
              /\ startsWith(toLowerCase(proc[o].message), imagePromptPrefix)) =>
              /\ proc[o].kind = "generation"
              /\ proc[o].payload.prompt # <<>>
              /\ ~IsWhiteSpace(Head(proc[o].payload.prompt))
              /\ ~IsWhiteSpace(proc[o].payload.prompt[Len(proc[o].payload.prompt)])
              /\ \E i \in 21..Len(proc[o].message), j \in 21..Len(proc[o].message) :
                    /\ proc[o].payload.prompt = SubSeq(proc[o].message, i, j)
                    /\ \A k \in 21..Len(proc[o].message) :
                          (k < i \/ k > j) => IsWhiteSpace(proc[o].message[k])
              /\ proc[o].message = MsgCat => proc[o].payload.prompt = <<"C", "a", "t">>

C5_Witness ==
    \E o \in Ops :
        /\ proc[o].pc = "fetching"
        /\ proc[o].kind = "generation"
        /\ proc[o].message = MsgCat
        /\ proc[o].payload.prompt = <<"C", "a", "t">>

\* the empty and the white-space-only texts among the inputs
BlankTexts == {m \in Messages : trim(m) = <<>>}

\* C6: a dispatch with an empty or white-space-only text and no image
\* changes nothing: no Turn, no fetch, no speech, and the busy flag, the
\* input text it found and the attachment stay as they were.
C6_NoopDispatch ==
    [][/\ \A t \in Transcripts \cap BlankTexts :
             onresult(t) =>
                 /\ inputValue' = t
                 /\ UNCHANGED <<proc, obs, isLoading, uploadedImage, speech, chatHistory>>
       /\ (inputValue \in BlankTexts /\ uploadedImage = NoImage /\ handleFormSubmit) =>
             UNCHANGED vars]_vars

\* a state a white-space-only dispatch without image has left as it found it
C6_Witness ==
    /\ inputValue = MsgBlank
    /\ uploadedImage = NoImage
    /\ chatHistory = <<>>
    /\ ~isLoading
    /\ \A o \in Ops : obs[o] = NoObs /\ proc[o] = IdleProc
    /\ \A c \in Callers : speech[c] = <<>>

\* C7: while an invocation is between its start and its last Turn (reading
\* the image, fetching, or waiting in a backoff) the busy flag is set.
C7_BusyWhilePending == \A o \in Ops : Pending(o) => isLoading

\* C8: an invocation that has set the busy flag and has ended, however it
\* ended, has released the flag.
C8_ReleasedWhenEnded ==
    \A o \in Ops : Returned(o) => obs[o].released >= 1

\* C9 as stated: on every path a provisional Turn has been appended before
\* the first fetch begins.
C9_PlaceholderOnEveryPath ==
    \A o \in Ops : obs[o].attempts >= 1 => obs[o].placeholder

\* C9 as amended: on the analysis and generation paths a provisional Turn
\* is appended before the first fetch begins, on the conversation and
\* summarization paths none is; and the step that appends the reply or
\* fallback Turn appends it after all Turns present, replacing none.
C9_PlaceholderOnImagePaths ==
    [][\A o \in Ops :
          /\ obs'[o].attempts >= 1 =>
                (obs'[o].placeholder <=> obs'[o].kind \in {"analysis", "generation"})
          /\ (~obs[o].placeholder /\ obs'[o].placeholder) =>
                /\ obs[o].attempts = 0
                /\ Len(chatHistory') = Len(chatHistory) + 2
                /\ SubSeq(chatHistory', 1, Len(chatHistory)) = chatHistory
                /\ chatHistory'[Len(chatHistory')].role = "vision"
          /\ (obs[o].finals = <<>> /\ obs'[o].finals # <<>>) =>
                chatHistory' = Append(chatHistory, obs'[o].finals[1])]_vars

C9_Witness ==
    \E o \in Ops :
        /\ obs[o].kind = "generation"
        /\ obs[o].placeholder
        /\ obs[o].outcome = "reply"
        /\ Len(chatHistory) >= 3
        /\ chatHistory[Len(chatHistory) - 1] =
              VisionTurn(GeneratingHead \o <<"C", "a", "t">> \o GeneratingTail)
        /\ chatHistory[Len(chatHistory)] = obs[o].finals[1]

\* C10 as stated: once its loop has ended an invocation has requested
\* speech exactly once, with the text of the Turn it appended.
C10_SpeaksReplyText ==
    \A o \in Ops :
        obs[o].outcome # "none" =>
            /\ Len(obs[o].finals) = 1
            /\ speech[o] = <<obs[o].finals[1].text>>

\* C10 as amended: an invocation requests no speech before its loop ends
\* and exactly one once it has ended; the text is the text of the Turn it
\* appended, except after a well-formed summary, where it is the fixed
\* sentence "Here is a summary of our conversation."
C10_SpeaksOnce ==
    \A o \in Ops :
        /\ obs[o].outcome = "none" => speech[o] = <<>>
        /\ obs[o].outcome # "none" =>
              /\ Len(obs[o].finals) = 1
              /\ speech[o] =
                    IF obs[o].kind = "summarization" /\ obs[o].outcome = "reply"
                    THEN <<SummarySpokenText>>
                    ELSE <<obs[o].finals[1].text>>

C10_Witness ==
    \E o \in Ops :
        /\ obs[o].kind = "summarization"
        /\ obs[o].outcome = "reply"
        /\ speech[o] = <<SummarySpokenText>>
        /\ obs[o].finals[1].text = SummaryHead \o ReplyText

\* C11: at most one playback is active at any time: no speech request
\* starts its playback while the playback of another is still going.
C11_OnePlayback ==
    Cardinality({q \in DOMAIN audio : audio[q] = "playing"}) <= 1

\* the answers of the speech service with which the claim expects silence:
\* the call threw, or the inline audio data, the MIME type or its
\* rate=<integer> parameter is missing
C12_Unplayable(r) ==
    \/ r.threw
    \/ ~r.json
    \/ r.audioData = ""
    \/ r.mimeType = <<>>
    \/ ~\E i \in 1..Len(r.mimeType) :
            /\ i + 5 <= Len(r.mimeType)
            /\ SubSeq(r.mimeType, i, i + 4) = <<"r", "a", "t", "e", "=">>
            /\ IsDigit(r.mimeType[i + 5])

C12_UnplayableResponses == {r \in TtsResponses : C12_Unplayable(r)}

\* C12: a speech request is fetched once: once settled it is never fetched
\* or started again.  When its fetch throws or the answer lacks the audio
\* data, the MIME type or the rate parameter, no playback starts; settling
\* a speech request appends no Turn and leaves the busy flag alone; and the
\* invocation that asked for the speech has already returned.
C12_SilentSpeechFailure ==
    [][/\ \A q \in DOMAIN audio :
             /\ q \in DOMAIN audio'
             /\ audio'[q] # audio[q] => (audio[q] = "playing" /\ audio'[q] = "ended")
       /\ \A q \in DOMAIN audio' \ DOMAIN audio :
             /\ audio'[q] # "none" =>
                   \A r \in C12_UnplayableResponses : ~ttsFetchSettled(q, r)
             /\ chatHistory' = chatHistory
             /\ isLoading' = isLoading
             /\ q[1] \in Ops => (proc[q[1]].pc = "done" /\ proc'[q[1]].pc = "done")]_vars

C12_Witness ==
    \E o \in Ops :
        /\ <<o, 1>> \in DOMAIN audio
        /\ audio[<<o, 1>>] = "none"
        /\ proc[o].pc = "done"
        /\ ~isLoading
        /\ chatHistory # <<>>
        /\ chatHistory[Len(chatHistory)] = obs[o].finals[1]

\* C13: every step either keeps all Turns of the conversation as they are
\* and in their order, adding new Turns only after them, or leaves the
\* conversation empty; no step removes, moves or rewrites a single Turn.
C13_AppendOrClear ==
    [][\/ /\ Len(chatHistory') >= Len(chatHistory)
          /\ SubSeq(chatHistory', 1, Len(chatHistory)) = chatHistory
       \/ chatHistory' = <<>>]_vars

\* a conversation cleared and appended to afterwards: the reply after the
\* placeholder after the user Turn
C13_Witness ==
    /\ speech[0] # <<>>
    /\ Len(chatHistory) = 3
    /\ chatHistory[1].role = "user"
    /\ \E o \in Ops : obs[o].placeholder /\ obs[o].finals = <<chatHistory[3]>>

\* the unsigned 32-bit little-endian number at a byte offset of the result
C14_U32(offset) ==
    wavBlob[offset + 1] + 256 * wavBlob[offset + 2]
        + 65536 * wavBlob[offset + 3] + 16777216 * wavBlob[offset + 4]

\* the unsigned 16-bit little-endian number at a byte offset of the result
C14_U16(offset) == wavBlob[offset + 1] + 256 * wavBlob[offset + 2]

\* the four bytes at a byte offset of the result
C14_Tag(offset) == SubSeq(wavBlob, offset + 1, offset + 4)

\* C14: the result of pcmToWav(samples, rate) has 44 + 2 * len bytes: "RIFF",
\* 36 + 2 * len, "WAVE", "fmt ", 16, 1, 1, rate, 2 * rate, 2, 16, "data",
\* 2 * len in the little-endian fields of the header, then every sample as
\* two bytes, low byte first, in order; for no sample it has 44 bytes and
\* the length field 36; for <<0x1234, -1>> at 16000 Hz the data length is
\* 4, the byte rate 32000 and the sample bytes 34 12 FF FF.
C14_WavLayout ==
    wavBlob # <<>> =>
        LET len == Len(pcmData)
        IN  /\ Len(wavBlob) = 44 + 2 * len
            /\ \A k \in 1..Len(wavBlob) : wavBlob[k] \in 0..255
            /\ C14_Tag(0) = <<82, 73, 70, 70>>
            /\ C14_U32(4) = 36 + 2 * len
            /\ C14_Tag(8) = <<87, 65, 86, 69>>
            /\ C14_Tag(12) = <<102, 109, 116, 32>>
            /\ C14_U32(16) = 16
            /\ C14_U16(20) = 1
            /\ C14_U16(22) = 1
            /\ C14_U32(24) = sampleRate
            /\ C14_U32(28) = sampleRate * 2
            /\ C14_U16(32) = 2
            /\ C14_U16(34) = 16
            /\ C14_Tag(36) = <<100, 97, 116, 97>>
            /\ C14_U32(40) = 2 * len
            /\ \A i \in 1..len :
                  C14_U16(44 + 2 * (i - 1)) =
                      IF pcmData[i] < 0 THEN pcmData[i] + 65536 ELSE pcmData[i]
            /\ len = 0 => (Len(wavBlob) = 44 /\ C14_U32(4) = 36)
            /\ (pcmData = <<4660, -1>> /\ sampleRate = 16000) =>
                  /\ C14_U32(40) = 4
                  /\ C14_U32(28) = 32000
                  /\ SubSeq(wavBlob, 45, 48) = <<52, 18, 255, 255>>

C14_Witness ==
    /\ pcmData = <<4660, -1>>
    /\ sampleRate = 16000
    /\ Len(wavBlob) = 48
    /\ SubSeq(wavBlob, 45, 48) = <<52, 18, 255, 255>>

\* two characters that are the same letter in either case, or equal
C15_SameLetter(a, b) ==
    \/ a = b
    \/ \E k \in 1..Len(UpperCase) : {a, b} = {UpperCase[k], LowerCase[k]}

\* the positions of the Turns whose text contains the query, letter case
\* ignored
C15_Matching ==
    {n \in 1..Len(chatHistory) :
        \E i \in 0..(Len(chatHistory[n].text) - Len(searchQuery)) :
            \A j \in 1..Len(searchQuery) :
                C15_SameLetter(chatHistory[n].text[i + j], searchQuery[j])}

\* the filtered conversation is exactly the matching Turns in their order
C15_Exact ==
    /\ Len(getFilteredChatHistory) = Cardinality(C15_Matching)
    /\ \E f \in [1..Len(getFilteredChatHistory) -> C15_Matching] :
          /\ \A k \in 1..(Len(getFilteredChatHistory) - 1) : f[k] < f[k + 1]
          /\ \A k \in 1..Len(getFilteredChatHistory) :
                getFilteredChatHistory[k] = chatHistory[f[k]]
    /\ searchQuery = <<>> => getFilteredChatHistory = chatHistory
    /\ (searchQuery = QueryHello /\ Len(chatHistory) = 3
           /\ chatHistory[1].text = TextHelloThere
           /\ chatHistory[2].text = TextGoodbye
           /\ chatHistory[3].text = TextSayHello) =>
          getFilteredChatHistory = <<chatHistory[1], chatHistory[3]>>

\* C15: after every change of the query the filtered conversation holds
\* exactly the Turns whose text contains the query, letter case ignored, in
\* their original order, all Turns when the query is empty, and the
\* conversation itself is what it was.
C15_FilterExact == [][C15_Exact' /\ chatHistory' = chatHistory]_vars

C15_Witness ==
    /\ searchQuery = QueryHello
    /\ Len(chatHistory) = 3
    /\ chatHistory[1].text = TextHelloThere
    /\ chatHistory[2].text = TextGoodbye
    /\ chatHistory[3].text = TextSayHello
    /\ getFilteredChatHistory = <<chatHistory[1], chatHistory[3]>>

\* C16: a clear leaves the conversation empty and no image attached,
\* whatever they were; and when, after a clear, a Turn is appended to the
\* empty conversation, the conversation is that one Turn.
C16_ClearLeavesNothing ==
    [][/\ speech'[0] # speech[0] =>
             (chatHistory' = <<>> /\ uploadedImage' = NoImage)
       /\ (speech[0] # <<>> /\ chatHistory = <<>>) =>
             \A o \in Ops :
                 (obs[o].finals = <<>> /\ obs'[o].finals # <<>>) =>
                     chatHistory' = obs'[o].finals]_vars

\* the reply of an invocation that was pending when the conversation was
\* cleared is the only Turn
C16_Witness ==
    /\ speech[0] # <<>>
    /\ uploadedImage = NoImage
    /\ Len(chatHistory) = 1
    /\ \E o \in Ops : obs[o].kind = "conversation" /\ obs[o].finals = chatHistory

\* C17: from an empty conversation handleSummarizeChat changes nothing: no
\* invocation becomes a summarization, so there is no fetch, no Turn, no
\* speech request, and the busy flag is as it was.
C17_EmptySummarizeReturns ==
    [][chatHistory = <<>> =>
          /\ \A o \in Ops :
                obs'[o].kind = "summarization" => obs[o].kind = "summarization"
          /\ handleSummarizeChat => UNCHANGED vars]_vars

\* an empty conversation, after a clear, in which nothing is under way
C17_Witness ==
    /\ chatHistory = <<>>
    /\ speech[0] # <<>>
    /\ ~isLoading
    /\ \A o \in Ops : obs[o] = NoObs /\ proc[o] = IdleProc /\ speech[o] = <<>>

\* C18: an invocation whose attempt was answered, well-formed or not, has
\* returned: no fetch is in flight and no timer pending, the answered
\* attempt was its last, and it has appended one Turn, the reply for a
\* well-formed answer, the fixed text of its path for one without the
\* expected field.
C18_AnswerEndsTheLoop ==
    \A o \in Ops :
        obs[o].outcome \in {"reply", "malformed"} =>
            /\ proc[o].pc = "done"
            /\ obs[o].attempts = Len(obs[o].waits) + 1
            /\ Len(obs[o].finals) = 1
            /\ obs[o].outcome = "malformed" =>
                  obs[o].finals[1] =
                      [role |-> "vision", imageUrl |-> <<>>,
                       text |-> CASE obs[o].kind = "analysis" -> AnalysisMalformedText
                                  [] obs[o].kind = "generation" -> GenerationMalformedText
                                  [] obs[o].kind = "conversation" -> ConversationMalformedText
                                  [] obs[o].kind = "summarization" -> SummaryMalformedText]
            /\ obs[o].outcome = "reply" =>
                  /\ obs[o].finals[1].role = "vision"
                  /\ obs[o].kind \in {"analysis", "conversation"} =>
                        obs[o].finals[1].text = ReplyText
                  /\ obs[o].kind = "generation" =>
                        obs[o].finals[1].imageUrl = <<"image/png", ReplyText>>
                  /\ obs[o].kind = "summarization" =>
                        obs[o].finals[1].text = SummaryHead \o ReplyText

\* an answer without the expected field on the 2nd attempt
C18_Witness ==
    \E o \in Ops :
        /\ obs[o].outcome = "malformed"
        /\ obs[o].attempts = 2
        /\ proc[o].pc = "done"
        /\ chatHistory # <<>>
        /\ chatHistory[Len(chatHistory)] = VisionTurn(ConversationMalformedText)

\* C19: an invocation that has returned from its loop has released the busy
\* flag once, whatever the number of its attempts.
C19_ReleasedOnce ==
    \A o \in Ops : proc[o].pc = "done" => obs[o].released = 1

\* C20: when dispatches and summarizations are started only while the busy
\* flag is clear, at most one invocation is under way (reading, fetching or
\* waiting in a backoff) at any time.
C20_OneOutstanding ==
    Cardinality({o \in Ops : Pending(o)}) <= 1

\* ------------------------------------------------------------------------
\* C21: an image-analysis dispatch is entered with the attachment of the
\* render that submitted it; when its first attempt begins the attachment
\* is cleared and the request holds the bytes and the declared type of
\* that attachment and, as prompt, the trimmed text or "What is in this
\* image?" when nothing remains of the text; every later attempt carries
\* the same request; no step of a dispatch (reply, unexpected format,
\* retry, retries exhausted) sets the attachment again: it changes to an
\* image only by an upload.
\* ------------------------------------------------------------------------
C21_AttachmentConsumed ==
    [][/\ \A o \in Ops :
             /\ (proc[o].pc = "idle" /\ proc'[o].kind = "analysis") =>
                    /\ uploadedImage # NoImage
                    /\ proc'[o].image = uploadedImage
                    /\ proc'[o].message = inputValue
             /\ (proc[o].pc = "reading" /\ proc'[o].pc = "fetching") =>
                    /\ uploadedImage' = NoImage
                    /\ proc'[o].payload.data = proc[o].image.file.bytes
                    /\ proc'[o].payload.mimeType = proc[o].image.file.type
                    /\ proc'[o].payload.prompt =
                          (IF \A i \in 1..Len(proc[o].message) : IsWhiteSpace(proc[o].message[i])
                           THEN DefaultImagePrompt
                           ELSE trim(proc[o].message))
             /\ (proc[o].kind = "analysis" /\ proc[o].pc \in {"fetching", "backoff"}) =>
                    /\ proc'[o].pc \in {"fetching", "backoff"} =>
                           proc'[o].payload = proc[o].payload
                    /\ proc'[o] # proc[o] => uploadedImage' = uploadedImage
       /\ (uploadedImage' # uploadedImage /\ uploadedImage' # NoImage) =>
             /\ proc' = proc
             /\ chatHistory' = chatHistory]_vars

\* a third attempt of an analysis of an image sent with a blank text is in
\* flight: the attachment is cleared, the request holds the image and the
\* default prompt
C21_Witness ==
    \E o \in Ops :
        /\ proc[o].kind = "analysis"
        /\ proc[o].pc = "fetching"
        /\ proc[o].retryCount = 2
        /\ trim(proc[o].message) = <<>>
        /\ proc[o].payload.prompt = DefaultImagePrompt
        /\ proc[o].payload.data = "QUJD"
        /\ proc[o].payload.mimeType = "image/jpeg"
        /\ uploadedImage = NoImage

\* ------------------------------------------------------------------------
\* C22: once the conversation has been discarded while an invocation
\* waited in a backoff delay, that invocation starts no further fetch and
\* appends no Turn.
\* ------------------------------------------------------------------------
C22_TimerCancelledOnDiscard ==
    [][\A o \in Ops :
          obs[o].discarded =>
             /\ obs'[o].attempts = obs[o].attempts
             /\ obs'[o].finals = obs[o].finals]_vars

\* ------------------------------------------------------------------------
\* C23: the Turn an invocation appends after a failure is an assistant
\* Turn without image whose text is the fixed string of its path: one
\* string per path for retries exhausted, one per path for a response
\* without the expected content; the same string is what it asks to be
\* spoken; nothing of the failed response is in it.
\* ------------------------------------------------------------------------
C23_FallbackStrings(kind) ==
    CASE kind = "analysis" ->
           [exhausted |-> AnalysisExhaustedText, malformed |-> AnalysisMalformedText]
      [] kind = "generation" ->
           [exhausted |-> GenerationExhaustedText, malformed |-> GenerationMalformedText]
      [] kind = "conversation" ->
           [exhausted |-> ConversationExhaustedText, malformed |-> ConversationMalformedText]
      [] kind = "summarization" ->
           [exhausted |-> SummaryExhaustedText, malformed |-> SummaryMalformedText]

C23_FixedFallback ==
    [][\A o \in Ops :
          (obs[o].outcome = "none" /\ obs'[o].outcome \in {"exhausted", "malformed"}) =>
             LET text == C23_FallbackStrings(obs'[o].kind)[obs'[o].outcome]
                 turn == [role |-> "vision", text |-> text, imageUrl |-> <<>>]
             IN  /\ chatHistory' = Append(chatHistory, turn)
                 /\ obs'[o].finals = <<turn>>
                 /\ speech'[o] = Append(speech[o], text)]_vars

\* the third attempt of a summarization has failed: the last Turn is the
\* summarization's retries-exhausted string
C23_Witness ==
    \E o \in Ops :
        /\ obs[o].kind = "summarization"
        /\ obs[o].outcome = "exhausted"
        /\ obs[o].attempts = 3
        /\ Len(chatHistory) > 0
        /\ chatHistory[Len(chatHistory)].text = SummaryExhaustedText
        /\ chatHistory[Len(chatHistory)].role = "vision"

\* ------------------------------------------------------------------------
\* C24: when the file read resolves and every fetch and every backoff
\* timer settles, each dispatch past the guard returns.  Entering, it
\* appends its user Turn and then the provisional Turn of its path, if
\* any; between entry and return it appends nothing; returning, it has
\* started 1, 2 or 3 fetches and appends one assistant Turn, its reply or
\* fallback, after everything then in the conversation; having returned it
\* does nothing more.  A dispatch that ran alone leaves the conversation it
\* found followed by its user Turn, its provisional Turn if any, and its
\* reply or fallback.
\* ------------------------------------------------------------------------
C24_DispatchTerminates ==
    /\ \A o \in 1..MaxOps :
          (proc[o].pc \in {"reading", "fetching", "backoff"}) ~> (proc[o].pc = "done")
    /\ [][\A o \in Ops :
             /\ (proc[o].pc = "idle" /\ proc'[o].pc # "idle") =>
                    LET n == Len(chatHistory)
                        added == SubSeq(chatHistory', n + 1, Len(chatHistory'))
                    IN  /\ SubSeq(chatHistory', 1, n) = chatHistory
                        /\ Len(added) = (IF obs'[o].placeholder THEN 2 ELSE 1)
                        /\ added[1].role = "user"
                        /\ added[1].text = proc'[o].message
                        /\ Len(added) = 2 => added[2].role = "vision"
                        /\ obs'[o].finals = <<>>
             /\ (/\ proc[o].pc \in {"reading", "fetching", "backoff"}
                 /\ proc'[o].pc \in {"reading", "fetching", "backoff"}
                 /\ proc'[o] # proc[o]) =>
                    /\ chatHistory' = chatHistory
                    /\ obs'[o].finals = <<>>
             /\ (proc[o].pc \in {"reading", "fetching", "backoff"} /\ proc'[o].pc = "done") =>
                    /\ obs'[o].attempts \in 1..3
                    /\ Len(obs'[o].finals) = 1
                    /\ obs'[o].finals[1].role = "vision"
                    /\ chatHistory' = Append(chatHistory, obs'[o].finals[1])
             /\ proc[o].pc = "done" =>
                    /\ proc'[o] = proc[o]
                    /\ obs'[o] = obs[o]]_vars
    /\ [](\A o \in Ops :
             (proc[o].pc = "done" /\ \A p \in Ops \ {o} : obs[p] = NoObs) =>
                LET own == IF obs[o].placeholder THEN 3 ELSE 2
                    before == Len(chatHistory) - own
                IN  /\ SubSeq(chatHistory, 1, before) \in InitialHistories
                    /\ chatHistory[before + 1].role = "user"
                    /\ obs[o].placeholder => chatHistory[before + 2].role = "vision"
                    /\ chatHistory[before + own] = obs[o].finals[1])

\* a generation answered at its third attempt has returned: the
\* conversation is its user Turn, its provisional Turn and its reply
C24_Witness ==
    \E o \in Ops :
        /\ proc[o].pc = "done"
        /\ obs[o].kind = "generation"
        /\ obs[o].attempts = 3
        /\ obs[o].outcome = "reply"
        /\ Len(chatHistory) = 3
        /\ chatHistory[1].role = "user"
        /\ chatHistory[2] = VisionTurn(GeneratingHead \o <<"C","a","t">> \o GeneratingTail)
        /\ chatHistory[3] = obs[o].finals[1]
        /\ chatHistory[3].text = ImageGeneratedText

====
